---- MODULE Spec2Model ----
(***************************************************************************)
(* A model of the bmp-reader crate: the Bit Extractor (bitreader.rs), the  *)
(* Header Decoder (bmp_header.rs), the Pixel Stream (bmp_pixels.rs) and    *)
(* the public Reader (lib.rs).                                             *)
(*                                                                         *)
(* The byte source is modelled as an in-memory seekable source (the        *)
(* std::io::Cursor the crate's tests use): read() returns as many bytes    *)
(* as remain and never fails, read_exact() fails at end of file, seek()    *)
(* may move past the end.                                                  *)
(*                                                                         *)
(* 32-bit words (masks, channel values) are bit vectors [0..31 -> {0,1}],  *)
(* bit 0 the least significant, because they exceed the checker's          *)
(* integers.                                                               *)
(***************************************************************************)
EXTENDS Integers, Sequences, FiniteSets, TLC

VARIABLES
    file,      \* the input: header fields, length and fill of the byte source
    build,     \* TRUE when the build checks arithmetic overflow (debug profile)
    phase,     \* "start" | "open" | "failed" | "panicked" | "unit"
    error,     \* the BMPError of a failed open, or "none"
    pos,       \* the byte source's position
    header,    \* the BMPHeader from_buffer produced ([ok |-> FALSE] when none)
    pallete,   \* Pixels' palette: a sequence of [red, green, blue] bytes
    pixels,    \* the Pixels variant: [kind, red_mask, green_mask, blue_mask, alpha_mask]
    reader,    \* the BitReader: [byte, n_bits_remaining, n_bits_per_chunk]
    cursor,    \* BMPReader: [width, height, bottom_up, x, y]
    ret,       \* what the last operation returned
    obs        \* observations of the run (history), read by the properties only

vars == <<file, build, phase, error, pos, header, pallete, pixels, reader, cursor, ret, obs>>

(***************************************************************************)
(* Bounds of the model.                                                    *)
(***************************************************************************)
MaxWidth == 2
MaxHeight == 2
MaxCalls == 12
MaxAlign == 4
MaxBytes == 2
MaxOps == 2

(***************************************************************************)
(* 32-bit words as bit vectors.                                            *)
(***************************************************************************)
Idx32 == 0..31

Zero32 == [i \in Idx32 |-> 0]

Ones32 == [i \in Idx32 |-> 1]

Min(a, b) == IF a < b THEN a ELSE b

\* the word of a number below 2^31
U32(n) == [i \in Idx32 |-> IF i < 31 THEN (n \div (2 ^ i)) % 2 ELSE 0]

\* the word whose set bits are lo .. lo+n-1
Run32(lo, n) == [i \in Idx32 |-> IF i >= lo /\ i < lo + n THEN 1 ELSE 0]

BitAnd(a, b) == [i \in Idx32 |-> a[i] * b[i]]

BitOr(a, b) == [i \in Idx32 |-> IF a[i] = 1 \/ b[i] = 1 THEN 1 ELSE 0]

\* a >> s, 0 <= s <= 31
Shr(a, s) == [i \in Idx32 |-> IF i + s <= 31 THEN a[i + s] ELSE 0]

\* a << s keeping the low 32 bits, 0 <= s <= 31
Shl(a, s) == [i \in Idx32 |-> IF i >= s THEN a[i - s] ELSE 0]

\* u32::trailing_zeros
trailing_zeros(a) ==
    IF a = Zero32 THEN 32
    ELSE CHOOSE i \in Idx32 : a[i] = 1 /\ \A j \in 0..(i - 1) : a[j] = 0

\* the number of set bits
PopCount(a) == Cardinality({i \in Idx32 : a[i] = 1})

\* little-endian word of four bytes (read_u32::<LittleEndian>)
WordOfBytes(b0, b1, b2, b3) ==
    [i \in Idx32 |->
        LET b == IF i < 8 THEN b0 ELSE IF i < 16 THEN b1 ELSE IF i < 24 THEN b2 ELSE b3
        IN  (b \div (2 ^ (i % 8))) % 2]

\* `as u16` followed by `as u32`: the low 16 bits
Trunc16(a) == [i \in Idx32 |-> IF i < 16 THEN a[i] ELSE 0]

(***************************************************************************)
(* The byte source.  Outside the header the byte at offset off of file f   *)
(* is (f.fill + off) mod 256; the file is f.len bytes long.                *)
(***************************************************************************)
ByteAt(f, off) == (f.fill + off) % 256

Avail(f, p) == IF p < f.len THEN f.len - p ELSE 0

\* Read::read into a buffer of n zeroed bytes: as many bytes as remain, never an error
read(f, p, n) ==
    LET got == Min(n, Avail(f, p))
    IN  [buf |-> [i \in 0..(n - 1) |-> IF i < got THEN ByteAt(f, p + i) ELSE 0],
         got |-> got,
         pos |-> p + got]

\* Read::read_exact of n bytes (read_u8, read_u16, read_u32) succeeds iff n bytes remain
exact_ok(f, p, n) == Avail(f, p) >= n

(***************************************************************************)
(* bitreader.rs                                                            *)
(***************************************************************************)
\* BitReader::new
BitReader_new(n_bits_per_chunk) ==
    [byte |-> 0, n_bits_remaining |-> 0, n_bits_per_chunk |-> n_bits_per_chunk]

NoReader == BitReader_new(0)

\* a read_bits that hands out the chunks of a byte from its high end
read_bits_high_first(rdr, p, r) ==
    LET fill   == rdr.n_bits_remaining = 0
        byte   == IF fill THEN r.buf[0] ELSE rdr.byte
        remain == IF fill THEN 8 ELSE rdr.n_bits_remaining
        w      == rdr.n_bits_per_chunk
    IN  [val    |-> byte \div (2 ^ (8 - w)),
         reader |-> [byte |-> (byte * (2 ^ w)) % 256,
                     n_bits_remaining |-> remain - w,
                     n_bits_per_chunk |-> w],
         pos    |-> IF fill THEN r.pos ELSE p,
         got    |-> IF fill THEN r.got ELSE 0]

\* BitReader::read_bits, r what one read() of the source gives: [val, reader, pos, got]
read_bits_from(rdr, p, r) ==
    IF rdr.n_bits_per_chunk = 8
    THEN [val |-> r.buf[0], reader |-> rdr, pos |-> r.pos, got |-> r.got]
    ELSE LET fill   == rdr.n_bits_remaining = 0
             byte   == IF fill THEN r.buf[0] ELSE rdr.byte
             remain == IF fill THEN 8 ELSE rdr.n_bits_remaining
             w      == rdr.n_bits_per_chunk
         IN  \* (!0u8) >> (8 - w) is the mask of the low w bits
             [val    |-> byte % (2 ^ w),
              reader |-> [byte |-> byte \div (2 ^ w),
                          n_bits_remaining |-> remain - w,
                          n_bits_per_chunk |-> w],
              pos    |-> IF fill THEN r.pos ELSE p,
              got    |-> IF fill THEN r.got ELSE 0]

read_bits(rdr, f, p) == read_bits_from(rdr, p, read(f, p, 1))

\* a seek that moves on a whole alignment unit from an aligned position
seek_always_advancing(rdr, p, align) ==
    [reader |-> [byte |-> 0, n_bits_remaining |-> 0,
                 n_bits_per_chunk |-> rdr.n_bits_per_chunk],
     pos    |-> p + (align - (p % align))]

\* BitReader::seek_to_byte_boundary, align > 0: [reader, pos]
BitReader_seek_to_byte_boundary(rdr, p, align) ==
    [reader |-> [byte |-> 0, n_bits_remaining |-> 0,
                 n_bits_per_chunk |-> rdr.n_bits_per_chunk],
     pos    |-> IF p % align # 0 THEN p + (align - (p % align)) ELSE p]

(***************************************************************************)
(* bmp_pixels.rs: channel derivation                                       *)
(***************************************************************************)
RECURSIVE upscale_loop(_, _, _, _)
\* the body of `for _ in 1..(32/bits)`, k iterations left
upscale_loop(to, from, bits, k) ==
    IF k <= 0 THEN to
    ELSE upscale_loop(BitOr(Shl(to, bits), from), from, bits, k - 1)

\* the last statement of upscale, looped the result of its loop
upscale_rest(looped, from, r) ==
    IF r = 0 THEN [panic |-> FALSE, val |-> looped]
    ELSE IF r >= 32 /\ build THEN [panic |-> TRUE, val |-> Zero32]
    ELSE [panic |-> FALSE, val |-> BitOr(Shl(looped, r % 32), Shr(from, 32 - r))]

\* upscale(from, bits), bits a u8 > 0: [panic, val].  `to << 32 % bits` shifts a
\* u32 by 32 when bits > 32: a panic when overflow is checked, a shift by
\* 32 mod 32 = 0 when it is not.
upscale(from, bits) ==
    upscale_rest(upscale_loop(from, from, bits, (32 \div bits) - 1), from, 32 % bits)

\* `!n as u8` for a u32 n: the complement's low byte
not_as_u8(n) == 255 - (n % 256)

\* mask(px, mask), mask # 0, tz its trailing zeros.
\* `!(mask >> tz).trailing_zeros() as u8` parses as
\* (!((mask >> tz).trailing_zeros())) as u8
mask_shifted(px, msk, tz) ==
    upscale(Shr(BitAnd(px, msk), tz), not_as_u8(trailing_zeros(Shr(msk, tz))))

mask(px, msk) == mask_shifted(px, msk, trailing_zeros(msk))

mask_or_zeros(px, msk) ==
    IF msk = Zero32 THEN [panic |-> FALSE, val |-> Zero32] ELSE mask(px, msk)

mask_or_ones(px, msk) ==
    IF msk = Zero32 THEN [panic |-> FALSE, val |-> Ones32] ELSE mask(px, msk)

NoPixel == [red |-> Zero32, green |-> Zero32, blue |-> Zero32, alpha |-> Zero32]

\* a Pixel of four channel results
pixel_of(r, g, b, a) ==
    [panic |-> r.panic \/ g.panic \/ b.panic \/ a.panic,
     px    |-> [red |-> r.val, green |-> g.val, blue |-> b.val, alpha |-> a.val]]

\* Pixel::from_pallete_pixel: [panic, px]
from_pallete_pixel(pp) ==
    pixel_of(upscale(U32(pp.red), 8), upscale(U32(pp.green), 8), upscale(U32(pp.blue), 8),
             [panic |-> FALSE, val |-> Ones32])

\* Pixel::from_bitfields: [panic, px]
from_bitfields(px, red, green, blue, alpha) ==
    pixel_of(mask_or_zeros(px, red), mask_or_zeros(px, green), mask_or_zeros(px, blue),
             mask_or_ones(px, alpha))

(***************************************************************************)
(* bmp_header.rs                                                           *)
(***************************************************************************)
BMP_BITFIELD32_RED == Run32(16, 8)

BMP_BITFIELD32_GREEN == Run32(8, 8)

BMP_BITFIELD32_BLUE == Run32(0, 8)

BMP_BITFIELD16_RED == Run32(10, 5)

BMP_BITFIELD16_GREEN == Run32(5, 5)

BMP_BITFIELD16_BLUE == Run32(0, 5)

NoHeader ==
    [ok |-> FALSE, version |-> "none", width |-> 0, height |-> 0, bpp |-> 0,
     n_colors |-> 0, red_mask |-> Zero32, green_mask |-> Zero32,
     blue_mask |-> Zero32, alpha_mask |-> Zero32, pixel_offset |-> 0]

\* a failed step: the error and the position reached
Err(e, p) == [ok |-> FALSE, err |-> e, pos |-> p, hdr |-> NoHeader]

Ok(h, p) == [ok |-> TRUE, err |-> "none", pos |-> p, hdr |-> h]

\* CompressionType::from_u32 accepts RGB (0), Bitfields (3) and AlphaBitfields (6)
compression_ok(val) == val \in {0, 3, 6}

\* BMPVersion::from_dib_header_size
from_dib_header_size(val) ==
    CASE val = 12  -> "Two"
      [] val = 40  -> "Three"
      [] val = 108 -> "Four"
      [] val = 124 -> "Five"
      [] OTHER     -> "unsupported"

\* the second shift of mask_is_contiguous, m1 the mask after the first
shifted_again(m1) == Shr(m1, trailing_zeros(m1))

\* mask_is_contiguous.  The statement `true;` after the first shift returns
\* nothing; the second shift is again by the trailing zeros, of a word whose
\* lowest bit is set.
mask_is_contiguous(msk) ==
    IF msk = Zero32 THEN TRUE
    ELSE shifted_again(Shr(msk, trailing_zeros(msk))) = Zero32

\* the n_colors field BMPHeader::new stores
reconciled_n_colors(bpp, n_colors) ==
    IF bpp < 16 /\ (n_colors = 0 \/ n_colors > 2 ^ bpp) THEN 2 ^ bpp ELSE 0

\* BMPHeader::new
BMPHeader_new(version, width, height, planes, bpp, n_colors, pixel_offset, p) ==
    IF width <= 0 THEN Err("InvalidWidth", p)
    ELSE IF height = 0 THEN Err("InvalidHeight", p)
    ELSE IF planes # 1 THEN Err("UnsupportedNumberOfPlanes", p)
    ELSE Ok([ok           |-> TRUE,
             version      |-> version,
             width        |-> width,
             height       |-> height,
             bpp          |-> bpp,
             n_colors     |-> reconciled_n_colors(bpp, n_colors),
             red_mask     |-> CASE bpp = 16 -> BMP_BITFIELD16_RED
                                [] bpp = 32 -> BMP_BITFIELD32_RED
                                [] OTHER    -> Zero32,
             green_mask   |-> CASE bpp = 16 -> BMP_BITFIELD16_GREEN
                                [] bpp = 32 -> BMP_BITFIELD32_GREEN
                                [] OTHER    -> Zero32,
             blue_mask    |-> CASE bpp = 16 -> BMP_BITFIELD16_BLUE
                                [] bpp = 32 -> BMP_BITFIELD32_BLUE
                                [] OTHER    -> Zero32,
             alpha_mask   |-> Zero32,
             pixel_offset |-> pixel_offset], p)

\* BMPHeader::set_masks
set_masks(h, red_mask, green_mask, blue_mask, alpha_mask, p) ==
    IF h.bpp \notin {16, 32} THEN Err("BitfieldsNotSupportedForPixelDepth", p)
    ELSE IF \E m \in {red_mask, green_mask, blue_mask, alpha_mask} : ~mask_is_contiguous(m)
         THEN Err("BitfieldsNotContiguous", p)
    ELSE IF \E pair \in { <<red_mask, green_mask>>, <<red_mask, blue_mask>>,
                          <<red_mask, alpha_mask>>, <<green_mask, blue_mask>>,
                          <<green_mask, alpha_mask>>, <<blue_mask, alpha_mask>> } :
                BitAnd(pair[1], pair[2]) # Zero32
         THEN Err("BitfieldsOverlap", p)
    ELSE Ok([h EXCEPT !.red_mask = red_mask, !.green_mask = green_mask,
                      !.blue_mask = blue_mask, !.alpha_mask = alpha_mask], p)

\* BMPHeader::from_v2_buffer: four 16-bit fields from position p
from_v2_buffer(f, p, pixel_offset) ==
    IF ~exact_ok(f, p, 8) THEN Err("IOError", p)
    ELSE BMPHeader_new("Two", f.width, f.height, f.planes, f.bpp, 0, pixel_offset, p + 8)

\* after set_masks (result m) the rest of the header is skipped
skip_rest(m, skip) == IF m.ok THEN Ok(m.hdr, m.pos + skip) ELSE m

\* the masks and the rest of the header, after the 36 bytes common to V3, V4, V5:
\* n_masks masks are read when the compression is a bitfields one, then skip
\* bytes are skipped
header_tail(f, h, p, n_masks, skip_rgb, skip_bitfields) ==
    IF f.compression = 0 THEN Ok(h, p + skip_rgb)
    ELSE IF ~exact_ok(f, p, 4 * n_masks) THEN Err("IOError", p)
    ELSE skip_rest(set_masks(h, f.red_mask, f.green_mask, f.blue_mask,
                             IF n_masks = 4 THEN f.alpha_mask ELSE Zero32,
                             p + 4 * n_masks),
                   skip_bitfields)

\* the match on the version in from_v3_buffer, h what BMPHeader::new returned
version_tail(f, h, version) ==
    IF ~h.ok THEN h
    ELSE header_tail(f, h.hdr, h.pos,
                     IF version = "Three" THEN 3 ELSE 4,
                     CASE version = "Three" -> 0 [] version = "Four" -> 72 [] OTHER -> 84,
                     CASE version = "Three" -> 0 [] version = "Four" -> 56 [] OTHER -> 68)

\* BMPHeader::from_v3_buffer
from_v3_buffer(f, p, version, pixel_offset) ==
    IF ~exact_ok(f, p, 16) THEN Err("IOError", p)
    ELSE IF ~compression_ok(f.compression) THEN Err("UnsupportedCompressionType", p + 16)
    ELSE IF ~exact_ok(f, p + 28, 4) THEN Err("IOError", p + 28)
    ELSE version_tail(f, BMPHeader_new(version, f.width, f.height, f.planes, f.bpp,
                                       f.n_colors, pixel_offset, p + 36),
                      version)

\* the position at which from_buffer reads the DIB header size: after the
\* magic, the 8 bytes skipped and the 16-bit pixel offset
dib_size_position(f, p) == read(f, p, 2).pos + 8 + 2

\* BMPHeader::from_buffer, the source at position p
from_buffer(f, p) ==
    LET bm == read(f, p, 2)
    IN  IF ~(f.magic_ok /\ bm.got = 2) THEN Err("WrongMagicNumbers", bm.pos)
        ELSE IF ~exact_ok(f, bm.pos + 8, 6) THEN Err("IOError", bm.pos + 8)
        ELSE LET version == from_dib_header_size(f.dib_size)
                 q       == dib_size_position(f, p) + 4
             IN  CASE version = "unsupported" -> Err("UnsupportedHeaderSize", q)
                   [] version = "Two" -> from_v2_buffer(f, q, f.pixel_offset)
                   [] OTHER -> from_v3_buffer(f, q, version, f.pixel_offset)

(***************************************************************************)
(* bmp_pixels.rs: the Pixel Stream                                         *)
(***************************************************************************)
NoPixels ==
    [kind |-> "none", red_mask |-> Zero32, green_mask |-> Zero32,
     blue_mask |-> Zero32, alpha_mask |-> Zero32]

BitKinds == {"OneBPP", "TwoBPP", "FourBPP"}

\* Pixels::from_header: [ok, pixels, reader]
from_header(h) ==
    LET indexed(k, w) ==
            [ok |-> TRUE, pixels |-> [NoPixels EXCEPT !.kind = k],
             reader |-> BitReader_new(w)]
        masked(k, r, g, b, a) ==
            [ok |-> TRUE,
             pixels |-> [kind |-> k, red_mask |-> r, green_mask |-> g,
                         blue_mask |-> b, alpha_mask |-> a],
             reader |-> NoReader]
    IN  CASE h.bpp = 1  -> indexed("OneBPP", 1)
          [] h.bpp = 2  -> indexed("TwoBPP", 2)
          [] h.bpp = 4  -> indexed("FourBPP", 4)
          [] h.bpp = 8  -> [ok |-> TRUE, pixels |-> [NoPixels EXCEPT !.kind = "EightBPP"],
                            reader |-> NoReader]
          [] h.bpp = 16 -> masked("SixteenBPP", Trunc16(h.red_mask), Trunc16(h.green_mask),
                                  Trunc16(h.blue_mask), Trunc16(h.alpha_mask))
          [] h.bpp = 24 -> [ok |-> TRUE,
                            pixels |-> [NoPixels EXCEPT !.kind = "TwentyFourBPP"],
                            reader |-> NoReader]
          [] h.bpp = 32 -> masked("ThirtyTwoBPP", h.red_mask, h.green_mask,
                                  h.blue_mask, h.alpha_mask)
          [] OTHER      -> [ok |-> FALSE, pixels |-> NoPixels, reader |-> NoReader]

\* the source position before palette entry i (0-based) is read, the palette
\* starting at position p with entries of size bytes: read() stops at the end
palette_position(f, p, size, i) ==
    IF p >= f.len THEN p ELSE Min(p + i * size, f.len)

\* the palette loop of Pixels::new: entries of 3 (V2) or 4 bytes, blue first
load_pallete(f, p, size, n) ==
    [i \in 1..n |->
        LET px == read(f, palette_position(f, p, size, i - 1), size).buf
        IN  [red |-> px[2], green |-> px[1], blue |-> px[0]]]

\* a Pixels::new that leaves the source where the palette ended
Pixels_new_without_seek(f, hr, fh) ==
    LET h       == hr.hdr
        size    == IF h.version = "Two" THEN 3 ELSE 4
        current == palette_position(f, hr.pos, size, h.n_colors)
        failed(e, p, c) ==
            [ok |-> FALSE, err |-> e, pos |-> p, header |-> h, hdr_end |-> hr.pos,
             pal_end |-> c, pallete |-> <<>>, pixels |-> NoPixels, reader |-> NoReader]
    IN  IF ~hr.ok THEN failed(hr.err, hr.pos, -1)
        ELSE IF current > h.pixel_offset THEN failed("HeaderTooLarge", current, current)
        ELSE IF ~fh.ok THEN failed("UnsupportedBitsPerPixel", current, current)
        ELSE [ok |-> TRUE, err |-> "none", pos |-> current, header |-> h,
              hdr_end |-> hr.pos, pal_end |-> current,
              pallete |-> load_pallete(f, hr.pos, size, h.n_colors),
              pixels |-> fh.pixels, reader |-> fh.reader]

\* Pixels::new after the header: the palette, the pixel offset, the variant.
\* hr is what from_buffer returned, fh what from_header returns
Pixels_new_from(f, hr, fh) ==
    LET h       == hr.hdr
        size    == IF h.version = "Two" THEN 3 ELSE 4
        current == palette_position(f, hr.pos, size, h.n_colors)
        failed(e, p, c) ==
            [ok |-> FALSE, err |-> e, pos |-> p, header |-> h, hdr_end |-> hr.pos,
             pal_end |-> c, pallete |-> <<>>, pixels |-> NoPixels, reader |-> NoReader]
    IN  IF ~hr.ok THEN failed(hr.err, hr.pos, -1)
        ELSE IF current > h.pixel_offset THEN failed("HeaderTooLarge", current, current)
        ELSE IF ~fh.ok THEN failed("UnsupportedBitsPerPixel", h.pixel_offset, current)
        ELSE [ok |-> TRUE, err |-> "none", pos |-> h.pixel_offset, header |-> h,
              hdr_end |-> hr.pos, pal_end |-> current,
              pallete |-> load_pallete(f, hr.pos, size, h.n_colors),
              pixels |-> fh.pixels, reader |-> fh.reader]

\* from_header of a decoded header
variant_of(hr) == from_header(hr.hdr)

\* Pixels::new on a source at position 0:
\* [ok, err, pos, header, hdr_end, pal_end, pallete, pixels, reader]; hdr_end is
\* the position from_buffer left the source at, pal_end is the
\* current_offset compared with the pixel offset, -1 when it is not reached
Pixels_new_at(f, hr) == Pixels_new_from(f, hr, variant_of(hr))

Pixels_new(f) == Pixels_new_at(f, from_buffer(f, 0))

\* Pixels::seek_to_byte_boundary, align > 0: [reader, pos]
seek_to_byte_boundary(px, rdr, p, align) ==
    IF px.kind \in BitKinds
    THEN BitReader_seek_to_byte_boundary(rdr, p, align)
    ELSE [reader |-> rdr,
          pos    |-> IF p % align # 0 THEN p + (align - (p % align)) ELSE p]

\* what next_pixel returns for the Pixel conversion c
outcome(c, rdr, p, bytes, index) ==
    [tag |-> IF c.panic THEN "Panic" ELSE "Ok",
     why |-> IF c.panic THEN "shift overflow" ELSE "none",
     px |-> c.px, reader |-> rdr, pos |-> p, bytes |-> bytes, index |-> index]

\* the outcome of a palette lookup pallete[index]
lookup(pal, index, rdr, p, bytes) ==
    IF index >= Len(pal)
    THEN [tag |-> "Panic", why |-> "index out of bounds", px |-> NoPixel,
          reader |-> rdr, pos |-> p, bytes |-> bytes, index |-> index]
    ELSE outcome(from_pallete_pixel(pal[index + 1]), rdr, p, bytes, index)

\* the lookup of the index read_bits returned (r)
lookup_bits(pal, r, f, p) ==
    lookup(pal, r.val, r.reader, r.pos, [i \in 1..r.got |-> ByteAt(f, p + i - 1)])

\* the outcome of Pixel::from_bitfields on the word px
unpack(px, masks, rdr, p, bytes) ==
    outcome(from_bitfields(px, masks.red_mask, masks.green_mask,
                           masks.blue_mask, masks.alpha_mask), rdr, p, bytes, -1)

\* the 24-bit pixel of the three bytes read (r): px[0] is stored as red
three_bytes(r, rdr) ==
    outcome(from_pallete_pixel([red |-> r.buf[0], green |-> r.buf[1], blue |-> r.buf[2]]),
            rdr, r.pos, [i \in 1..r.got |-> r.buf[i - 1]], -1)

\* a failed read_exact: how many bytes it consumed is unspecified, so the
\* position afterwards, eof, is any from p to the end of the source
io_error(rdr, eof) ==
    [tag |-> "Err", why |-> "UnexpectedEof", px |-> NoPixel, reader |-> rdr,
     pos |-> eof, bytes |-> <<>>, index |-> -1]

\* the little-endian word of the n bytes at p (n = 2 or 4)
word_at(f, p, n) ==
    WordOfBytes(ByteAt(f, p), ByteAt(f, p + 1),
                IF n = 4 THEN ByteAt(f, p + 2) ELSE 0,
                IF n = 4 THEN ByteAt(f, p + 3) ELSE 0)

\* Pixels::next_pixel: [tag, why, px, reader, pos, bytes, index], bytes the
\* bytes consumed from the source and index the palette index used (or -1)
next_pixel(px, pal, rdr, f, p, eof) ==
    CASE px.kind \in BitKinds -> lookup_bits(pal, read_bits(rdr, f, p), f, p)
      [] px.kind = "EightBPP" ->
            IF ~exact_ok(f, p, 1) THEN io_error(rdr, eof)
            ELSE lookup(pal, ByteAt(f, p), rdr, p + 1, <<ByteAt(f, p)>>)
      [] px.kind = "TwentyFourBPP" -> three_bytes(read(f, p, 3), rdr)
      [] px.kind \in {"SixteenBPP", "ThirtyTwoBPP"} ->
            LET n == IF px.kind = "SixteenBPP" THEN 2 ELSE 4
            IN  IF ~exact_ok(f, p, n) THEN io_error(rdr, eof)
                ELSE unpack(word_at(f, p, n), px, rdr, p + n,
                            [i \in 1..n |-> ByteAt(f, p + i - 1)])

\* the bytes next_pixel reads with read_exact (0 when it uses read)
exact_size(px) ==
    CASE px.kind = "EightBPP"     -> 1
      [] px.kind = "SixteenBPP"   -> 2
      [] px.kind = "ThirtyTwoBPP" -> 4
      [] OTHER                    -> 0

\* the positions the source may be at after next_pixel's read_exact at p, when it fails
EofPositions(px, f, p) ==
    IF exact_ok(f, p, exact_size(px)) THEN {p} ELSE p..(p + Avail(f, p))

(***************************************************************************)
(* lib.rs: the Reader                                                      *)
(***************************************************************************)
NoCursor == [width |-> 0, height |-> 0, bottom_up |-> FALSE, x |-> 0, y |-> 0]

Abs(n) == IF n < 0 THEN -n ELSE n

\* the BMPReader that BMPReader::new builds from Pixels::new's width and height
BMPReader_new(width, height) ==
    [width |-> width, height |-> Abs(height), bottom_up |-> height > 0, x |-> 0, y |-> 0]

\* BMPReader::get_y
get_y(c) == IF c.bottom_up THEN c.y ELSE c.height - c.y

(***************************************************************************)
(* The inputs: files given by their header fields, length and fill.        *)
(***************************************************************************)
BaseFile ==
    [magic_ok |-> TRUE, pixel_offset |-> 1080, dib_size |-> 40, width |-> 1,
     height |-> 1, planes |-> 1, bpp |-> 24, compression |-> 0, n_colors |-> 0,
     red_mask |-> Zero32, green_mask |-> Zero32, blue_mask |-> Zero32,
     alpha_mask |-> Zero32, len |-> 1200, fill |-> 0]

Depths == {1, 2, 4, 8, 16, 24, 32}

\* images of every size, orientation and depth, V2 (whose 16-bit height is
\* never negative) and V3, with all or only some of the pixel bytes present
GeometryFiles ==
    {f \in {[BaseFile EXCEPT !.dib_size = d, !.width = w, !.height = h, !.bpp = b,
                             !.len = l, !.fill = fl] :
               d \in {12, 40}, w \in 1..MaxWidth, h \in (-MaxHeight)..MaxHeight,
               b \in Depths, l \in {1090, 1200}, fl \in {0, 250}} :
        f.height # 0 /\ (f.dib_size = 12 => f.height > 0)}

\* headers of every version, depth, declared colour count, pixel offset and length
StructureFiles ==
    {[BaseFile EXCEPT !.dib_size = d, !.bpp = b, !.n_colors = n, !.pixel_offset = o,
                      !.len = l] :
        d \in {12, 16, 40, 108, 124}, b \in Depths \cup {3}, n \in {0, 2, 16, 300},
        o \in {24, 54, 140, 1080}, l \in {30, 60, 1200}}

\* headers with valid and invalid signature, dimensions, planes and compression
ValidationFiles ==
    {f \in {[BaseFile EXCEPT !.magic_ok = m, !.dib_size = d, !.width = w, !.height = h,
                             !.planes = p, !.compression = c] :
               m \in BOOLEAN, d \in {12, 40, 108}, w \in {-1, 0, 1}, h \in {-1, 0, 1},
               p \in {0, 1, 2}, c \in {0, 1, 3, 6}} :
        f.dib_size = 12 => (f.width >= 0 /\ f.height >= 0)}

\* 0x00FF00FF: two separate runs of set bits
TwoRuns == BitOr(Run32(0, 8), Run32(16, 8))

\* the explicit masks <<red, green, blue, alpha>> tried
MaskQuads ==
    { <<Zero32, Zero32, Zero32, Zero32>>,
      <<Run32(16, 8), Run32(8, 8), Run32(0, 8), Zero32>>,
      <<Run32(16, 8), Run32(8, 8), Run32(0, 8), Run32(24, 8)>>,
      <<Run32(0, 16), Run32(24, 8), Zero32, Zero32>>,
      <<Run32(11, 5), Run32(5, 6), Run32(0, 5), Zero32>>,
      <<TwoRuns, Zero32, Zero32, Zero32>>,
      <<Run32(16, 8), Run32(8, 8), Run32(0, 8), TwoRuns>>,
      <<Run32(0, 16), Run32(8, 8), Zero32, Zero32>> }

\* headers with a bitfields compression and explicit masks
BitfieldFiles ==
    {[BaseFile EXCEPT !.dib_size = d, !.compression = c, !.bpp = b, !.red_mask = q[1],
                      !.green_mask = q[2], !.blue_mask = q[3], !.alpha_mask = q[4],
                      !.len = l, !.pixel_offset = o] :
        d \in {40, 108, 124}, c \in {3, 6}, b \in {8, 16, 32}, q \in MaskQuads,
        l \in {60, 1200}, o \in {54, 140}}

Files == GeometryFiles \cup StructureFiles \cup ValidationFiles \cup BitfieldFiles

NoRet == [op |-> "none", tag |-> "none"]

NoObs ==
    [hdr_end |-> -1, pal_end |-> -1, calls |-> 0, nones |-> 0, reads |-> 0, reads_at_none |-> 0,
     first_read_at |-> -1, items |-> <<>>]

(***************************************************************************)
(* The program: open a file, then pull pixels.                             *)
(***************************************************************************)
Init ==
    /\ file \in Files
    /\ build \in BOOLEAN
    /\ phase = "start"
    /\ error = "none"
    /\ pos = 0
    /\ header = NoHeader
    /\ pallete = <<>>
    /\ pixels = NoPixels
    /\ reader = NoReader
    /\ cursor = NoCursor
    /\ ret = NoRet
    /\ obs = NoObs

\* BMPReader::new (open): Pixels::new, then the cursor at (0, 0)
Open ==
    /\ phase = "start"
    /\ \E r \in {Pixels_new(file)} :
           /\ phase' = IF r.ok THEN "open" ELSE "failed"
           /\ error' = r.err
           /\ pos' = r.pos
           /\ header' = r.header
           /\ pallete' = r.pallete
           /\ pixels' = r.pixels
           /\ reader' = r.reader
           /\ cursor' = IF r.ok THEN BMPReader_new(r.header.width, r.header.height)
                        ELSE NoCursor
           /\ ret' = [op |-> "open", tag |-> IF r.ok THEN "Ok" ELSE "Err"]
           /\ obs' = [obs EXCEPT !.hdr_end = r.hdr_end, !.pal_end = r.pal_end]
    /\ UNCHANGED <<file, build>>

\* the cursor after the step of BMPReader::next that returns a pixel
advance(c) ==
    IF c.x >= c.width THEN [c EXCEPT !.x = 0, !.y = @ + 1] ELSE [c EXCEPT !.x = @ + 1]

\* the source before next_pixel: a new row starts at the next multiple of 4
realign(c, px, rdr, p) ==
    IF c.x >= c.width THEN seek_to_byte_boundary(px, rdr, p, 4)
    ELSE [reader |-> rdr, pos |-> p]

\* BMPReader::next
next ==
    /\ phase = "open"
    /\ obs.calls < MaxCalls
    /\ IF cursor.x >= cursor.width /\ cursor.y >= cursor.height
       THEN \* the end of the image: x is reset, None is returned
            /\ cursor' = [cursor EXCEPT !.x = 0]
            /\ ret' = [op |-> "next", tag |-> "None"]
            /\ obs' = [obs EXCEPT !.calls = @ + 1, !.nones = @ + 1,
                                  !.reads_at_none = IF obs.nones = 0 THEN obs.reads ELSE @]
            /\ UNCHANGED <<phase, pos, reader>>
       ELSE \E c \in {advance(cursor)}, s \in {realign(cursor, pixels, reader, pos)} :
            \E eof \in EofPositions(pixels, file, s.pos) :
            \E r \in {next_pixel(pixels, pallete, s.reader, file, s.pos, eof)} :
                /\ cursor' = c
                /\ pos' = r.pos
                /\ reader' = r.reader
                /\ phase' = IF r.tag = "Panic" THEN "panicked" ELSE phase
                /\ ret' = [op |-> "next",
                           tag |-> IF r.tag = "Panic" THEN "Panic" ELSE "Some",
                           x |-> c.x, y |-> get_y(c), res |-> r.tag, why |-> r.why,
                           px |-> r.px, bytes |-> r.bytes, index |-> r.index,
                           palette_len |-> Len(pallete), at |-> s.pos]
                /\ obs' = [obs EXCEPT
                             !.calls = @ + 1,
                             !.reads = @ + 1,
                             !.first_read_at = IF obs.reads = 0 THEN s.pos ELSE @,
                             !.items = IF obs.nones = 0 /\ r.tag # "Panic"
                                       THEN Append(@, <<c.x, get_y(c)>>) ELSE @]
    /\ UNCHANGED <<file, build, error, header, pallete, pixels>>

Next == Open \/ next

Spec == Init /\ [][Next]_vars

(***************************************************************************)
(* Properties of the Reader, checked under Spec.                           *)
(***************************************************************************)
\* a byte replicated to 32 bits: byte * 0x01010101
Rep8(b) == [i \in Idx32 |-> (b \div (2 ^ (i % 8))) % 2]

\* the set bits form one run
OneRun(m) == \E lo \in Idx32 : \E n \in 1..(32 - lo) : m = Run32(lo, n)

\* C1: from the cursor (0,0) to the first end-of-sequence, next() yields exactly
\* W*H items, each with 0 <= x < W and 0 <= y < H, and every cell of the grid
\* exactly once.
C1_FullTraversal ==
    (ret.op = "next" /\ ret.tag = "None" /\ obs.nones = 1) =>
        LET W == cursor.width
            H == cursor.height
            items == obs.items
        IN  /\ Len(items) = W * H
            /\ \A i \in 1..Len(items) :
                   items[i][1] \in 0..(W - 1) /\ items[i][2] \in 0..(H - 1)
            /\ \A x \in 0..(W - 1), y \in 0..(H - 1) :
                   Cardinality({i \in 1..Len(items) : items[i] = <<x, y>>}) = 1

\* C2: once next() has returned None, every later call returns None and reads
\* no further pixel.
C2_EndIsTerminal ==
    (ret.op = "next" /\ obs.nones >= 1) =>
        (ret.tag = "None" /\ obs.reads = obs.reads_at_none)

\* the masks set_masks is given for the file: V3 passes 0 for alpha
GivenMasks ==
    <<file.red_mask, file.green_mask, file.blue_mask,
      IF file.dib_size = 40 THEN Zero32 ELSE file.alpha_mask>>

\* set_masks ran for a depth of 16 or 32: the header decode got past the
\* reads and either succeeded or failed on the masks
MasksValidated ==
    /\ phase # "start"
    /\ file.dib_size \in {40, 108, 124}
    /\ file.compression \in {3, 6}
    /\ file.bpp \in {16, 32}
    /\ header.ok \/ error \in {"BitfieldsNotContiguous", "BitfieldsOverlap"}

\* C3: set_masks accepts masks that are each zero or one contiguous run and
\* pairwise disjoint, the header then carrying exactly those masks, and
\* rejects a mask with two separate runs with the bitfields-not-contiguous error.
C3_MaskValidation ==
    MasksValidated =>
        LET m == GivenMasks
        IN  /\ ( /\ \A i \in 1..4 : m[i] = Zero32 \/ OneRun(m[i])
                 /\ \A i, j \in 1..4 : i # j => BitAnd(m[i], m[j]) = Zero32 )
               => ( /\ header.ok
                    /\ <<header.red_mask, header.green_mask,
                         header.blue_mask, header.alpha_mask>> = m )
            /\ (\E i \in 1..4 : m[i] # Zero32 /\ ~OneRun(m[i]))
               => error = "BitfieldsNotContiguous"

\* the colour count the file declares: V2 has no such field and passes 0
Declared == IF file.dib_size = 12 THEN 0 ELSE file.n_colors

\* C4: for depth d < 16 the header's colour count is 2^d when the declared
\* count is 0 or above 2^d, the declared count otherwise, and the palette
\* loaded has that many entries.
C4_ColourCount ==
    (header.ok /\ header.bpp < 16) =>
        /\ header.n_colors =
              IF Declared = 0 \/ Declared > 2 ^ header.bpp
              THEN 2 ^ header.bpp ELSE Declared
        /\ phase \in {"open", "panicked"} => Len(pallete) = header.n_colors

\* C6: a 24-bit next_pixel consumes 3 bytes b0, b1, b2 and returns blue = b0,
\* green = b1, red = b2, each replicated to 32 bits, and alpha all ones.
C6_TwentyFourBit ==
    ( /\ ret.op = "next" /\ ret.tag = "Some"
      /\ pixels.kind = "TwentyFourBPP"
      /\ Avail(file, ret.at) >= 3 ) =>
        /\ pos = ret.at + 3
        /\ ret.res = "Ok"
        /\ ret.px.blue = Rep8(ByteAt(file, ret.at))
        /\ ret.px.green = Rep8(ByteAt(file, ret.at + 1))
        /\ ret.px.red = Rep8(ByteAt(file, ret.at + 2))
        /\ ret.px.alpha = Ones32

\* C9: when the position after the header and the palette exceeds the declared
\* pixel offset, open fails with HeaderTooLarge, no Pixel Stream exists and no
\* pixel is read; otherwise the source is moved to exactly the declared
\* offset, and the first next_pixel reads from it.
C9_PixelOffset ==
    /\ (obs.pal_end >= 0 /\ obs.pal_end > header.pixel_offset) =>
          /\ phase = "failed" /\ error = "HeaderTooLarge"
          /\ pixels = NoPixels /\ obs.reads = 0
    /\ (ret.op = "open" /\ obs.pal_end >= 0 /\ obs.pal_end <= header.pixel_offset) =>
          /\ error # "HeaderTooLarge"
          /\ pos = header.pixel_offset
    /\ obs.reads >= 1 =>
          /\ obs.pal_end <= header.pixel_offset
          /\ obs.first_read_at = header.pixel_offset

\* C9's case: the source was moved forward past unread bytes to the pixel
\* offset and a pixel was read there
C9_Witness ==
    /\ obs.reads >= 1
    /\ obs.pal_end < header.pixel_offset
    /\ obs.first_read_at = header.pixel_offset

\* C11: after a successful header decode the bytes consumed from the start of
\* the DIB header-size field equal the declared header size (12, 40, 108 or
\* 124), and 12 more for the three masks of a V3 header with bitfields.
C11_HeaderConsumed ==
    (phase # "start" /\ header.ok) =>
        obs.hdr_end - dib_size_position(file, 0) =
            IF file.dib_size = 40 /\ file.compression # 0
            THEN file.dib_size + 12 ELSE file.dib_size

\* C10: every palette lookup of next_pixel uses an index below the palette's length.
C10_IndexInBounds ==
    (ret.op = "next" /\ ret.tag # "None" /\ ret.index >= 0) =>
        ret.index < ret.palette_len

(***************************************************************************)
(* The Bit Extractor and the Pixel Stream driven directly, as the crate's  *)
(* unit tests drive them: read_bits and next_pixel in any order with       *)
(* seek_to_byte_boundary of any alignment.                                 *)
(***************************************************************************)
ChunkWidths == {1, 2, 4, 8}

\* a source whose first byte is any byte, for a BitReader
ReaderFiles == {[BaseFile EXCEPT !.fill = b] : b \in 0..255}

\* images of every depth whose pixels start at any offset modulo the alignment
StreamFiles ==
    {[BaseFile EXCEPT !.bpp = b, !.pixel_offset = o] :
        b \in Depths, o \in 1080..(1080 + MaxAlign - 1)}

\* obs of a unit: start is the position at which the run of read_bits calls
\* since the buffer was last empty began, items their results, calls the
\* seeks and next_pixel calls made, prev the call before the last
Last(r) == [op |-> r.op, align |-> IF r.op = "seek" THEN r.align ELSE 0]

UnitObs(p) == [start |-> p, items |-> <<>>, calls |-> 0, prev |-> Last(NoRet)]

UnitInit ==
    /\ phase = "unit"
    /\ error = "none"
    /\ header = NoHeader
    /\ cursor = NoCursor
    /\ ret = NoRet
    /\ \/ \* BitReader::new on a fresh source
          /\ file \in ReaderFiles
          /\ build = FALSE
          /\ pos = 0
          /\ pallete = <<>>
          /\ pixels = NoPixels
          /\ \E w \in ChunkWidths : reader = BitReader_new(w)
          /\ obs = UnitObs(0)
       \/ \* Pixels::new on a well-formed file
          /\ file \in StreamFiles
          /\ build \in BOOLEAN
          /\ \E r \in {Pixels_new(file)} :
                /\ r.ok
                /\ pos = r.pos
                /\ pallete = r.pallete
                /\ pixels = r.pixels
                /\ reader = r.reader
                /\ obs = UnitObs(r.pos)

\* BitReader::read_bits on a BitReader
unit_read_bits ==
    /\ phase = "unit"
    /\ pixels.kind = "none"
    /\ pos < obs.start + MaxBytes
    /\ \E r \in {read_bits(reader, file, pos)} :
          /\ pos' = r.pos
          /\ reader' = r.reader
          /\ ret' = [op |-> "read_bits", val |-> r.val, before |-> pos]
          /\ obs' = [obs EXCEPT !.items = Append(@, r.val), !.prev = Last(ret)]
    /\ UNCHANGED <<file, build, phase, error, header, pallete, pixels, cursor>>

\* BitReader::seek_to_byte_boundary on a BitReader
unit_reader_seek ==
    /\ phase = "unit"
    /\ pixels.kind = "none"
    /\ obs.calls < MaxOps
    /\ \E align \in 1..MaxAlign :
       \E r \in {BitReader_seek_to_byte_boundary(reader, pos, align)} :
          /\ pos' = r.pos
          /\ reader' = r.reader
          /\ ret' = [op |-> "seek", align |-> align, before |-> pos,
                     buffered |-> reader.n_bits_remaining]
          /\ obs' = [start |-> r.pos, items |-> <<>>, calls |-> obs.calls + 1,
                     prev |-> Last(ret)]
    /\ UNCHANGED <<file, build, phase, error, header, pallete, pixels, cursor>>

\* Pixels::seek_to_byte_boundary on a Pixel Stream
unit_seek ==
    /\ phase = "unit"
    /\ pixels.kind # "none"
    /\ obs.calls < MaxOps
    /\ \E align \in 1..MaxAlign :
       \E r \in {seek_to_byte_boundary(pixels, reader, pos, align)} :
          /\ pos' = r.pos
          /\ reader' = r.reader
          /\ ret' = [op |-> "seek", align |-> align, before |-> pos,
                     buffered |-> reader.n_bits_remaining]
          /\ obs' = [start |-> r.pos, items |-> <<>>, calls |-> obs.calls + 1,
                     prev |-> Last(ret)]
    /\ UNCHANGED <<file, build, phase, error, header, pallete, pixels, cursor>>

\* Pixels::next_pixel on a Pixel Stream
unit_next_pixel ==
    /\ phase = "unit"
    /\ pixels.kind # "none"
    /\ obs.calls < MaxOps
    /\ \E eof \in EofPositions(pixels, file, pos) :
       \E r \in {next_pixel(pixels, pallete, reader, file, pos, eof)} :
          /\ pos' = r.pos
          /\ reader' = r.reader
          /\ phase' = IF r.tag = "Panic" THEN "panicked" ELSE phase
          /\ ret' = [op |-> "next_pixel", res |-> r.tag, why |-> r.why, px |-> r.px,
                     bytes |-> r.bytes, index |-> r.index, before |-> pos]
          /\ obs' = [obs EXCEPT !.calls = @ + 1, !.prev = Last(ret)]
    /\ UNCHANGED <<file, build, error, header, pallete, pixels, cursor>>

UnitNext == unit_read_bits \/ unit_reader_seek \/ unit_seek \/ unit_next_pixel

SpecUnit == UnitInit /\ [][UnitNext]_vars

\* C7: from an empty buffer, the k-th read_bits result (k = 0 .. 8/w - 1) of
\* each source byte b is (b >> (k*w)) mod 2^w, 8/w calls consume exactly one
\* byte, and the next call reads the following byte.
C7_ChunksLowToHigh ==
    (phase = "unit" /\ pixels.kind = "none") =>
        LET w   == reader.n_bits_per_chunk
            per == 8 \div w
            n   == Len(obs.items)
        IN  /\ \A j \in 1..n :
                  obs.items[j] =
                      (ByteAt(file, obs.start + ((j - 1) \div per))
                          \div (2 ^ (((j - 1) % per) * w))) % (2 ^ w)
            /\ pos = obs.start + ((n + per - 1) \div per)

\* C7's case: a whole byte was read in chunks narrower than a byte and the
\* next call went on to the following byte
C7_Witness ==
    /\ phase = "unit" /\ pixels.kind = "none"
    /\ reader.n_bits_per_chunk = 2
    /\ Len(obs.items) = 5
    /\ pos = obs.start + 2

\* C8: seek_to_byte_boundary(align) leaves an aligned position unchanged and
\* otherwise advances it by align - (p mod align); the position is then the
\* smallest multiple of align >= p, a second call is a no-op, and the
\* Bit Extractor's buffered bits are discarded either way.
C8_SeekToBoundary ==
    (ret.op = "seek") =>
        LET p == ret.before
            a == ret.align
        IN  /\ p % a = 0 => pos = p
            /\ p % a # 0 => pos = p + (a - (p % a))
            /\ pos % a = 0 /\ pos >= p /\ pos - p < a
            /\ (obs.prev.op = "seek" /\ obs.prev.align = a) => pos = p
            /\ pixels.kind \in BitKinds \cup {"none"} =>
                  reader.n_bits_remaining = 0 /\ reader.byte = 0

\* C8's case: a Bit Extractor with buffered bits, not at a multiple of align
C8_Witness ==
    /\ ret.op = "seek"
    /\ ret.before % ret.align # 0
    /\ ret.buffered > 0
    /\ pos = ret.before + (ret.align - (ret.before % ret.align))

(***************************************************************************)
(* Channel derivation as a function of the packed pixel and the mask.      *)
(***************************************************************************)
\* 0x00FF0000, 0xFFFFFFFF, 0x3B3A3938 and 0x00007FFF
Words == {Run32(16, 8), Ones32, WordOfBytes(56, 57, 58, 59), Run32(0, 15)}

\* every non-zero mask of one run of set bits
Runs == {Run32(lo, n) : lo \in Idx32, n \in 1..32} \ {Zero32}

MaskInit ==
    /\ phase = "pure"
    /\ build \in BOOLEAN
    /\ file = BaseFile
    /\ error = "none"
    /\ pos = 0
    /\ header = NoHeader
    /\ pallete = <<>>
    /\ pixels = NoPixels
    /\ reader = NoReader
    /\ cursor = NoCursor
    /\ ret = NoRet
    /\ \E px \in Words, msk \in Runs : obs = [px |-> px, msk |-> msk]

\* mask(px, msk)
apply_mask ==
    /\ phase = "pure"
    /\ ret = NoRet
    /\ \E r \in {mask(obs.px, obs.msk)} :
          ret' = [op |-> "mask", panic |-> r.panic, val |-> r.val]
    /\ UNCHANGED <<file, build, phase, error, pos, header, pallete, pixels, reader,
                   cursor, obs>>

MaskNext == apply_mask

SpecMask == MaskInit /\ [][MaskNext]_vars

\* the n-bit value v repeated from the top of a word, the 32 mod n low bits
\* taken from v's most significant bits
Replicated(v, n) == [i \in Idx32 |-> v[n - 1 - ((31 - i) % n)]]

\* C5: for every pixel word px and non-zero contiguous mask m of n bits the
\* channel is (px & m) >> trailing_zeros(m) replicated to 32 bits, all ones
\* when the channel's bits are all set, computed without overflow.
C5_ChannelReplicated ==
    (ret.op = "mask") =>
        LET m == obs.msk
            n == PopCount(m)
            v == Shr(BitAnd(obs.px, m), trailing_zeros(m))
        IN  /\ ~ret.panic
            /\ ret.val = Replicated(v, n)
            /\ BitAnd(obs.px, m) = m => ret.val = Ones32

====
